---- MODULE Spec2Model ----
(***************************************************************************)
(* Model of BaseService (the generic CRUD service of                       *)
(* grpc-typeorm-infrastructure) and of the Metadata class it uses.         *)
(*                                                                         *)
(* The service keeps no state between calls.  The model records, for the   *)
(* service call in progress, its arguments, the calls it made to its       *)
(* collaborators (the validation engine and the repository) in order, the  *)
(* collaborator call it is suspended on, the error that reached the catch  *)
(* block of the operation, and the outcome the caller received.  The       *)
(* collaborators' answers are inputs of the actions.                       *)
(*                                                                         *)
(* validId and getSearchFilter await nothing and are one action each.      *)
(* Every other operation is one action up to its first await and one       *)
(* action per continuation.  While isValid, save, saveAll or update is     *)
(* suspended, on a validation or on the repository, another callback may   *)
(* change the entities the call was handed, and the length of the array    *)
(* that saveAll was handed.  supplied is the number of entities the caller *)
(* handed over, argEntities is what the entities are now.                  *)
(*                                                                         *)
(* The model follows one call at a time.  BaseService has one field, the   *)
(* repository, which no operation assigns, so calls in flight together     *)
(* share only the repository and the objects they were handed: what a      *)
(* second call does reaches the call followed here as a change of its      *)
(* entities (Mutate, Resize) or as an answer of the repository, and both   *)
(* are unconstrained.                                                      *)
(*                                                                         *)
(* Strings that the code inspects or concatenates (search terms, clauses)  *)
(* are sequences of one-character strings.  Messages, kinds and method     *)
(* names, which the code only passes along, are plain strings.             *)
(***************************************************************************)
EXTENDS Integers, Sequences, FiniteSets, TLC

VARIABLES op, awaiting, argId, supplied, argEntities, argLimit, argTerms, calls, raised, outcome

vars == <<op, awaiting, argId, supplied, argEntities, argLimit, argTerms, calls, raised, outcome>>

----------------------------------------------------------------------------
(* Bounds of the model *)

\* longest list of search terms handed to getSearchFilter / search
MaxTerms == 3
\* largest limit handed to getSearchFilter / search (the smallest is -1)
MaxLimit == 1
\* longest list of entities handed to saveAll
MaxEntities == 2
\* longest list of failures the validation engine reports to isValid
MaxErrors == 2
\* largest id handed to findOneById / update / delete, in halves (see Ids)
MaxTwiceId == 3

----------------------------------------------------------------------------
(* Characters and strings *)

SP == " "
LP == "("
RP == ")"
QUOTE == "'"

\* String.prototype.startsWith / endsWith for a one-character argument
StartsWith(s, c) == Len(s) > 0 /\ s[1] = c
EndsWith(s, c) == Len(s) > 0 /\ s[Len(s)] = c

\* the value of an optional string property that was not supplied
UndefinedStr == <<"undefined">>

\* JavaScript truthiness of an optional string: undefined and '' are falsy
Truthy(s) == s # UndefinedStr /\ s # <<>>

----------------------------------------------------------------------------
(* Metadata *)

\* new Metadata(): _internal_repr = {}.  The object is modelled as the
\* sequence of its entries [key, values]: its own keys in the order of
\* Object.keys and, first in the sequence when set("__proto__", ...) has
\* replaced the prototype, an entry under "__proto__" that holds the array
\* that is now the prototype.
NewMetadata == <<>>

\* _internal_repr is a plain object: it inherits the members of
\* Object.prototype, which are functions (or, for __proto__, an object)
ObjectPrototypeMembers ==
    {"constructor", "__proto__", "toString", "toLocaleString", "valueOf",
     "hasOwnProperty", "isPrototypeOf", "propertyIsEnumerable",
     "__defineGetter__", "__defineSetter__", "__lookupGetter__",
     "__lookupSetter__"}

\* the methods an object inherits once an array is its prototype
ArrayPrototypeMembers ==
    {"at", "concat", "copyWithin", "entries", "every", "fill", "filter",
     "find", "findIndex", "findLast", "findLastIndex", "flat", "flatMap",
     "forEach", "includes", "indexOf", "join", "keys", "lastIndexOf", "map",
     "pop", "push", "reduce", "reduceRight", "reverse", "shift", "slice",
     "some", "sort", "splice", "toReversed", "toSorted", "toSpliced",
     "unshift", "values", "with"}

\* the decimal digits and their values
Digits == {"0", "1", "2", "3", "4", "5", "6", "7", "8", "9"}

DigitValue ==
    ("0" :> 0) @@ ("1" :> 1) @@ ("2" :> 2) @@ ("3" :> 3) @@ ("4" :> 4)
      @@ ("5" :> 5) @@ ("6" :> 6) @@ ("7" :> 7) @@ ("8" :> 8) @@ ("9" :> 9)

\* the key is a canonical decimal numeral: digits only, and no leading zero
\* unless it is "0"
IsNumeral(key) ==
    /\ Len(key) > 0
    /\ \A i \in 1..Len(key) : SubSeq(key, i, i) \in Digits
    /\ Len(key) > 1 => SubSeq(key, 1, 1) # "0"

\* of two canonical numerals, the first stands for the smaller number
NumeralBefore(a, b) ==
    \/ Len(a) < Len(b)
    \/ /\ Len(a) = Len(b)
       /\ \E i \in 1..Len(a) :
             /\ DigitValue[SubSeq(a, i, i)] < DigitValue[SubSeq(b, i, i)]
             /\ \A j \in 1..(i - 1) : SubSeq(a, j, j) = SubSeq(b, j, j)

\* the largest array index, 2^32 - 2
MaxArrayIndex == "4294967294"

\* the keys that are array indices: Object.keys lists them first, in
\* ascending order
IsArrayIndex(key) ==
    IsNumeral(key) /\ (key = MaxArrayIndex \/ NumeralBefore(key, MaxArrayIndex))

\* the number a canonical numeral stands for, from its i-th digit on, acc
\* being the number its first i - 1 digits stand for
RECURSIVE NumeralValue(_, _, _)
NumeralValue(key, i, acc) ==
    IF i > Len(key) THEN acc
    ELSE NumeralValue(key, i + 1, 10 * acc + DigitValue[SubSeq(key, i, i)])

\* the key is an index of the array, and the element there is not ''
HasElement(array, key) ==
    /\ IsArrayIndex(key)
    /\ Len(key) <= 9
    /\ NumeralValue(key, 1, 0) < Len(array)
    /\ array[NumeralValue(key, 1, 0) + 1] # ""

\* Object.prototype.hasOwnProperty.call(_internal_repr, key): __proto__ is
\* an accessor of Object.prototype and never an own key
HasOwnProperty(metadata, key) ==
    key # "__proto__" /\ \E i \in 1..Len(metadata) : metadata[i].key = key

\* the prototype of _internal_repr is an array, put there by set
HasArrayPrototype(metadata) == \E i \in 1..Len(metadata) : metadata[i].key = "__proto__"

\* the array that is the prototype of _internal_repr
ArrayPrototype(metadata) ==
    metadata[CHOOSE i \in 1..Len(metadata) : metadata[i].key = "__proto__"].values

\* this._internal_repr[key] is truthy although key is not an own key: a
\* member of Object.prototype or, once an array is the prototype, a method
\* of arrays, the array's length, or an element of it that is not ''
Inherits(metadata, key) ==
    \/ key \in ObjectPrototypeMembers
    \/ /\ HasArrayPrototype(metadata)
       /\ \/ key \in ArrayPrototypeMembers
          \/ key = "length"
          \/ HasElement(ArrayPrototype(metadata), key)

\* !(!this._internal_repr[key]): an own list, or an inherited member
HasKey(metadata, key) == HasOwnProperty(metadata, key) \/ Inherits(metadata, key)

\* an own key comes before a new key in Object.keys: array indices in
\* ascending order, then the other keys in insertion order
KeyBefore(own, new) ==
    IF IsArrayIndex(new)
    THEN IsArrayIndex(own) /\ NumeralBefore(own, new)
    ELSE TRUE

\* this._internal_repr[key] = [value] for a key that is not an own key yet
InsertKey(metadata, key, value) ==
    LET before == Cardinality({i \in 1..Len(metadata) :
                                  \/ metadata[i].key = "__proto__"
                                  \/ KeyBefore(metadata[i].key, key)})
    IN  SubSeq(metadata, 1, before)
          \o <<[key |-> key, values |-> <<value>>]>>
          \o SubSeq(metadata, before + 1, Len(metadata))

\* the entry under key holds these values from now on
WithValues(metadata, key, values) ==
    [i \in 1..Len(metadata) |->
        IF metadata[i].key = key THEN [key |-> key, values |-> values] ELSE metadata[i]]

\* Metadata.set: this._internal_repr[key] = [value].  Under "__proto__" the
\* assignment runs the setter of Object.prototype, which makes the array
\* the prototype of _internal_repr and adds no own key
MetadataSet(metadata, key, value) ==
    IF key = "__proto__"
    THEN IF HasArrayPrototype(metadata)
         THEN WithValues(metadata, key, <<value>>)
         ELSE <<[key |-> key, values |-> <<value>>]>> \o metadata
    ELSE IF HasOwnProperty(metadata, key)
    THEN WithValues(metadata, key, <<value>>)
    ELSE InsertKey(metadata, key, value)

\* what push throws on an inherited member, which is not an array
PushIsNotAFunction ==
    [isBoom |-> FALSE, kind |-> "TypeError",
     message |-> "this._internal_repr[key].push is not a function",
     metadata |-> <<>>]

\* this._internal_repr[key] is an array: an own list, or under "__proto__"
\* the array that is the prototype
HasList(metadata, key) ==
    HasOwnProperty(metadata, key) \/ (key = "__proto__" /\ HasArrayPrototype(metadata))

\* Metadata.add: create the key's list when the key is missing, then push;
\* gives the error thrown, if any, and the metadata after the call
MetadataAdd(metadata, key, value) ==
    IF HasList(metadata, key)
    THEN [error |-> [isBoom |-> FALSE, kind |-> "none", message |-> "", metadata |-> <<>>],
          metadata |-> [i \in 1..Len(metadata) |->
                          IF metadata[i].key = key
                          THEN [key |-> key, values |-> Append(metadata[i].values, value)]
                          ELSE metadata[i]]]
    ELSE IF HasKey(metadata, key)
    THEN [error |-> PushIsNotAFunction, metadata |-> metadata]
    ELSE [error |-> [isBoom |-> FALSE, kind |-> "none", message |-> "", metadata |-> <<>>],
          metadata |-> InsertKey(metadata, key, value)]

\* Metadata.remove: delete the key when it is an own key
MetadataRemove(metadata, key) ==
    IF HasOwnProperty(metadata, key)
    THEN SelectSeq(metadata, LAMBDA entry : entry.key # key)
    ELSE metadata

\* Metadata.get
MetadataGet(metadata, key) ==
    IF HasOwnProperty(metadata, key)
    THEN metadata[CHOOSE i \in 1..Len(metadata) : metadata[i].key = key].values
    ELSE <<>>

\* Object.keys(_internal_repr)
MetadataKeys(metadata) ==
    LET own == SelectSeq(metadata, LAMBDA entry : entry.key # "__proto__")
    IN  [i \in 1..Len(own) |-> own[i].key]

----------------------------------------------------------------------------
(* Errors *)

INVALID_ARGUMENT == "INVALID_ARGUMENT"
NOT_FOUND == "NOT_FOUND"
INTERNAL == "INTERNAL"

\* the three kinds of typed error the service itself constructs
TypedKinds == {INVALID_ARGUMENT, NOT_FOUND, INTERNAL}

\* a GrpcBoom error: tagged isBoom, with a kind, a message and metadata
GrpcBoom(kind, message, metadata) ==
    [isBoom |-> TRUE, kind |-> kind, message |-> message, metadata |-> metadata]

\* any other thrown value (a backend or library exception)
Untyped(message) ==
    [isBoom |-> FALSE, kind |-> "Error", message |-> message, metadata |-> NewMetadata]

\* String(error) of a thrown Error: its name, then its message
ErrorToString(error) ==
    IF error.message = "" THEN error.kind ELSE error.kind \o ": " \o error.message

\* no error was thrown
NoError ==
    [isBoom |-> FALSE, kind |-> "none", message |-> "", metadata |-> NewMetadata]

IncorrectParameters ==
    GrpcBoom(INVALID_ARGUMENT, "Incorrect / invalid parameters supplied", NewMetadata)

ObjectNotFound ==
    GrpcBoom(NOT_FOUND, "The requested object could not be found", NewMetadata)

\* a mutant of Normalize: rethrows whatever was caught
NormalizeRethrows(error) == error

\* the catch block shared by every operation of the service:
\* if (error && error.isBoom) throw error; throw GrpcBoom.internal(error)
Normalize(error) ==
    IF error.isBoom THEN error ELSE GrpcBoom(INTERNAL, error.message, NewMetadata)

\* no query-builder options
NoFilter == [where |-> <<>>, andWhere |-> <<>>, limit |-> -1]

\* what a call returns: entities (one, or a list), a compiled filter, or a
\* boolean
Rows(rows) == [rows |-> rows, filter |-> NoFilter, bool |-> FALSE]
Compiled(filter) == [rows |-> <<>>, filter |-> filter, bool |-> FALSE]
Bool(b) == [rows |-> <<>>, filter |-> NoFilter, bool |-> b]
NoValue == Rows(<<>>)

\* what one call produced: the collaborator calls it made, the error that
\* reached its catch block, and what its caller received
Returned(made, value) ==
    [made |-> made, caught |-> NoError,
     result |-> [ok |-> TRUE, value |-> value, error |-> NoError]]

Failed(made, error) ==
    [made |-> made, caught |-> error,
     result |-> [ok |-> FALSE, value |-> NoValue, error |-> Normalize(error)]]

----------------------------------------------------------------------------
(* Ids *)

\* A number is kept as twice its value, so that 3 stands for 1.5; an id is
\* a number, NaN or undefined.
NumId(n) == [t |-> "number", twice |-> n]
NaNId == [t |-> "NaN", twice |-> 0]
UndefinedId == [t |-> "undefined", twice |-> 0]

Ids == {UndefinedId, NaNId} \cup {NumId(n) : n \in -2..MaxTwiceId}

\* id > 0 in JavaScript: false for NaN and for undefined
GreaterThanZero(i) == i.t = "number" /\ i.twice > 0

\* isNaN(id): true for NaN and for undefined
IsNaN(i) == i.t # "number"

\* a mutant of validId: the comparison is id >= 0
validIdAcceptsZero(i) == i.t # "undefined" /\ i.t = "number" /\ i.twice >= 0

\* validId: id !== undefined && id > 0
validId(i) == i.t # "undefined" /\ GreaterThanZero(i)

----------------------------------------------------------------------------
(* Collaborators' answers and the record of a call *)

SeqsUpTo(S, n) == UNION {[1..k -> S] : k \in 0..n}

\* what a collaborator answered: it threw error, or it returned value
Throws(error) == [throws |-> TRUE, error |-> error, value |-> <<>>]
Returns(value) == [throws |-> FALSE, error |-> NoError, value |-> value]

NoId == [t |-> "none", twice |-> 0]

\* one call to a collaborator: the function, its arguments, its answer
Call(fn, ents, i, filter, answer) ==
    [fn |-> fn, entities |-> ents, id |-> i, filter |-> filter, answer |-> answer]

----------------------------------------------------------------------------
(* Validation: isValid *)

\* the failures the validation engine can report for one field: a property
\* name ("" stands for a missing one) and the constraint messages, in the
\* order of Object.values(item.constraints); constraints may be missing.
\* A property may be named like an array index or like a member of
\* Object.prototype.
Properties == {"", "username", "emailAddress", "1", "constructor"}

ConstraintSets ==
    {[defined |-> FALSE, values |-> <<>>],
     [defined |-> TRUE, values |-> <<>>],
     [defined |-> TRUE, values |-> <<"Incorrect length">>],
     [defined |-> TRUE, values |-> <<"Must be a valid email address", "Incorrect length">>]}

ValidationErrors == [property : Properties, constraints : ConstraintSets]

\* an entity is opaque to the service; the model keeps a name and what the
\* validation engine answers for it
Entity(name, answer) == [name |-> name, validation |-> answer]

\* validate(entity, {...}) of class-validator
validate(entity) == entity.validation

\* let value = 'Unknown error'; for (const val of Object.values(...)) { value = val; break; }
FirstMessage(item) ==
    IF Len(item.constraints.values) > 0
    THEN item.constraints.values[1]
    ELSE "Unknown error"

\* if (item.property && item.constraints)
Reportable(item) == item.property # "" /\ item.constraints.defined

\* for (const item of errors) { ... metadata.add(item.property, value) }:
\* built is the last answer of metadata.add; the loop ends with the list,
\* or when metadata.add throws
RECURSIVE CollectFailures(_, _, _)
CollectFailures(errors, i, built) ==
    IF i > Len(errors) \/ built.error.kind # "none" THEN built
    ELSE IF Reportable(errors[i])
    THEN CollectFailures(errors, i + 1,
            MetadataAdd(built.metadata, errors[i].property, FirstMessage(errors[i])))
    ELSE CollectFailures(errors, i + 1, built)

\* what the try block of isValid throws for a list of failures: the error
\* of metadata.add, or
\* GrpcBoom.invalidArgument('Validation failed on the provided request', metadata)
ValidationFailed(built) ==
    IF built.error.kind # "none" THEN built.error
    ELSE GrpcBoom(INVALID_ARGUMENT, "Validation failed on the provided request",
                  built.metadata)

\* the catch block of isValid: a typed error is rethrown, anything else is
\* wrapped as InvalidArgument: 'Unable to validate request: ' + error
IsValidCatch(error) ==
    IF error.isBoom THEN error
    ELSE GrpcBoom(INVALID_ARGUMENT, "Unable to validate request: " \o ErrorToString(error),
                  NewMetadata)

\* isValid throws: thrown reaches its catch block
IsValidThrows(made, thrown) ==
    [made |-> made, caught |-> thrown,
     result |-> [ok |-> FALSE, value |-> NoValue, error |-> IsValidCatch(thrown)]]

\* isValid(entity)
isValid(entity) ==
    LET answer == validate(entity)
        made == <<Call("validate", <<entity>>, NoId, NoFilter, answer)>>
    IN  IF answer.throws THEN IsValidThrows(made, answer.error)
        ELSE IF Len(answer.value) > 0
        THEN IsValidThrows(made,
                ValidationFailed(CollectFailures(answer.value, 1,
                                    [error |-> NoError, metadata |-> NewMetadata])))
        ELSE [made |-> made, caught |-> NoError,
              result |-> [ok |-> TRUE, value |-> Bool(TRUE), error |-> NoError]]

----------------------------------------------------------------------------
(* The search-filter compiler: getSearchFilter *)

\* SearchTerm.newSearchTerm(searchTerm): a SearchTerm with the same field,
\* operator and value
newSearchTerm(searchTerm) ==
    [field |-> searchTerm.field, operator |-> searchTerm.operator,
     value |-> searchTerm.value]

\* a mutant of QuoteValue: an opening parenthesis alone leaves the value raw
QuoteValueStartOnly(searchTerm) == ~StartsWith(searchTerm.value, LP)

\* quoteValue: false iff the raw value starts with '(' and ends with ')'
QuoteValue(searchTerm) ==
    ~(StartsWith(searchTerm.value, LP) /\ EndsWith(searchTerm.value, RP))

\* const value = quoteValue ? `'${term.value}'` : `${term.value}`
ValuePart(searchTerm, term) ==
    IF QuoteValue(searchTerm) THEN <<QUOTE>> \o term.value \o <<QUOTE>> ELSE term.value

\* term.operator ? term.operator : ' = '
OperatorPart(term) ==
    IF Truthy(term.operator) THEN term.operator ELSE <<SP, "=", SP>>

\* `${term.field} ${operator} ${value}`
Clause(searchTerm) ==
    LET term == newSearchTerm(searchTerm)
    IN  term.field \o <<SP>> \o OperatorPart(term) \o <<SP>> \o ValuePart(searchTerm, term)

\* a mutant of CompileTerms: every clause replaces the primary where
RECURSIVE CompileTermsLastWins(_, _, _, _)
CompileTermsLastWins(terms, i, whereClause, andWhereClause) ==
    IF i > Len(terms) THEN [where |-> whereClause, andWhere |-> andWhereClause]
    ELSE CompileTermsLastWins(terms, i + 1, Clause(terms[i]), andWhereClause)

\* the loop of getSearchFilter: the first clause becomes where, the others
\* are pushed on andWhere
RECURSIVE CompileTerms(_, _, _, _)
CompileTerms(terms, i, whereClause, andWhereClause) ==
    IF i > Len(terms) THEN [where |-> whereClause, andWhere |-> andWhereClause]
    ELSE IF whereClause = <<>>
    THEN CompileTerms(terms, i + 1, Clause(terms[i]), andWhereClause)
    ELSE CompileTerms(terms, i + 1, whereClause, Append(andWhereClause, Clause(terms[i])))

\* the search terms argument: an array, or absent (undefined / null)
Present(list) == [present |-> TRUE, list |-> list]
Absent == [present |-> FALSE, list |-> <<>>]

\* a mutant of Acceptable: an empty list of terms is let through
AcceptableAllowsEmpty(lim, terms) == lim >= 0 /\ terms.present

\* limit >= 0 && searchTerms && searchTerms.length > 0
Acceptable(lim, terms) == lim >= 0 /\ terms.present /\ Len(terms.list) > 0

\* getSearchFilter(limit, searchTerms): synchronous, with no catch block
getSearchFilter(lim, terms) ==
    IF Acceptable(lim, terms)
    THEN LET compiled == CompileTerms(terms.list, 1, <<>>, <<>>)
         IN  [made |-> <<>>, caught |-> NoError,
              result |-> [ok |-> TRUE,
                           value |-> Compiled([where |-> compiled.where,
                                               andWhere |-> compiled.andWhere,
                                               limit |-> lim]),
                           error |-> NoError]]
    ELSE [made |-> <<>>, caught |-> IncorrectParameters,
          result |-> [ok |-> FALSE, value |-> NoValue, error |-> IncorrectParameters]]

----------------------------------------------------------------------------
(* The operations of the service *)

\* return await this.repository.<method>(...), inside try / catch
Delegate(made, answer) ==
    IF answer.throws THEN Failed(made, answer.error) ELSE Returned(made, Rows(answer.value))

\* findAll()
findAll(answer) ==
    Delegate(<<Call("repository.getAll", <<>>, NoId, NoFilter, answer)>>, answer)

\* findAllByFilter(filter)
findAllByFilter(answer) ==
    Delegate(<<Call("repository.findManyByFilter", <<>>, NoId, NoFilter, answer)>>, answer)

\* findOneById(id)
findOneById(i, answer) ==
    IF ~validId(i) \/ IsNaN(i)
    THEN Failed(<<>>, IncorrectParameters)
    ELSE Delegate(<<Call("repository.findOneById", <<>>, i, NoFilter, answer)>>, answer)

\* findOneByFilter(filter)
findOneByFilter(answer) ==
    Delegate(<<Call("repository.findOneByFilter", <<>>, NoId, NoFilter, answer)>>, answer)

\* a mutant of findOneWithQueryBuilder: an absent result is returned as it is
findOneWithQueryBuilderNoCheck(options, answer) ==
    Delegate(<<Call("repository.findOneWithQueryBuilder", <<>>, NoId, options, answer)>>,
             answer)

\* findOneWithQueryBuilder(options): an absent result is <<>>
findOneWithQueryBuilder(options, answer) ==
    LET made == <<Call("repository.findOneWithQueryBuilder", <<>>, NoId, options, answer)>>
    IN  IF answer.throws THEN Failed(made, answer.error)
        ELSE IF answer.value # <<>> THEN Returned(made, Rows(answer.value))
        ELSE Failed(made, ObjectNotFound)

\* findManyWithQueryBuilder(options)
findManyWithQueryBuilder(options, answer) ==
    Delegate(<<Call("repository.findManyWithQueryBuilder", <<>>, NoId, options, answer)>>,
             answer)

\* search(limit, searchTerms)
search(lim, terms, answer) ==
    LET compiled == getSearchFilter(lim, terms)
        inner == findManyWithQueryBuilder(compiled.result.value.filter, answer)
    IN  IF ~compiled.result.ok THEN Failed(<<>>, compiled.result.error)
        ELSE IF inner.result.ok THEN Returned(inner.made, inner.result.value)
        ELSE Failed(inner.made, inner.result.error)

\* const entityIsValid = await this.isValid(entity); if (!entityIsValid ...)
\* throw ...; return await this.repository.<method>(...): checked is what
\* isValid produced, refused what else makes the operation throw, call the
\* call to the repository
Persist(checked, refused, call) ==
    IF ~checked.result.ok THEN Failed(checked.made, checked.result.error)
    ELSE IF ~checked.result.value.bool \/ refused
    THEN Failed(checked.made, IncorrectParameters)
    ELSE Delegate(checked.made \o <<call>>, call.answer)

\* save(entity): entity is the entity as isValid is handed it, later the
\* same entity as repository.save is handed it, after the await
save(entity, later, answer) ==
    Persist(isValid(entity), FALSE,
            Call("repository.save", <<later>>, NoId, NoFilter, answer))

\* the validation loop of saveAll: stops at the first entity that isValid
\* rejects; gives the calls made and the error thrown, if any.  ents are
\* the entities as isValid is handed each of them
RECURSIVE ValidateAll(_, _, _)
RECURSIVE ValidateFrom(_, _, _, _)
ValidateAll(ents, i, made) ==
    IF i > Len(ents) THEN [made |-> made, error |-> NoError]
    ELSE ValidateFrom(ents, i, made, isValid(ents[i]))

\* one turn of the loop: checked is what isValid produced for ents[i]
ValidateFrom(ents, i, made, checked) ==
    IF ~checked.result.ok
    THEN [made |-> made \o checked.made, error |-> checked.result.error]
    ELSE IF ~checked.result.value.bool
    THEN [made |-> made \o checked.made, error |-> IncorrectParameters]
    ELSE ValidateAll(ents, i + 1, made \o checked.made)

\* a mutant of saveAll: each entity is persisted as soon as it is validated
RECURSIVE SaveEach(_, _, _, _, _)
RECURSIVE SaveOne(_, _, _, _, _, _)
SaveEach(ents, later, i, made, answer) ==
    IF i > Len(ents) THEN Returned(made, Rows(later))
    ELSE SaveOne(ents, later, i, made, answer, isValid(ents[i]))

SaveOne(ents, later, i, made, answer, checked) ==
    IF ~checked.result.ok THEN Failed(made \o checked.made, checked.result.error)
    ELSE IF answer.throws
    THEN Failed(made \o checked.made
                  \o <<Call("repository.save", <<ents[i]>>, NoId, NoFilter, answer)>>,
                answer.error)
    ELSE SaveEach(ents, later, i + 1,
                  made \o checked.made
                    \o <<Call("repository.save", <<ents[i]>>, NoId, NoFilter, answer)>>,
                  answer)

saveAllOneByOne(ents, later, answer) == SaveEach(ents, later, 1, <<>>, answer)

\* saveAll after its loop: checked is what the loop produced, call the call
\* to the repository
PersistAll(checked, call) ==
    IF checked.error.kind # "none" THEN Failed(checked.made, checked.error)
    ELSE Delegate(checked.made \o <<call>>, call.answer)

\* saveAll(entities): ents are the entities as isValid is handed each of
\* them, later the list as repository.saveAll is handed it, after the loop
saveAll(ents, later, answer) ==
    PersistAll(ValidateAll(ents, 1, <<>>),
               Call("repository.saveAll", later, NoId, NoFilter, answer))

\* update(entity, id): entity is the entity as isValid is handed it, later
\* the same entity as repository.updateOneById is handed it
update(entity, later, i, answer) ==
    Persist(isValid(entity), ~validId(i),
            Call("repository.updateOneById", <<later>>, i, NoFilter, answer))

\* a mutant of delete: the entity is deleted without being fetched, and the
\* answer of repository.delete is returned
deleteWithoutFetch(i, found, removed) ==
    IF ~validId(i) THEN Failed(<<>>, IncorrectParameters)
    ELSE Delegate(<<Call("repository.delete", <<>>, i, NoFilter, removed)>>, removed)

\* delete(id): found is the answer of repository.findOneById, removed the
\* answer of repository.delete
delete(i, found, removed) ==
    LET fetch == <<Call("repository.findOneById", <<>>, i, NoFilter, found)>>
        made == fetch \o <<Call("repository.delete", found.value, NoId, NoFilter, removed)>>
    IN  IF ~validId(i) THEN Failed(<<>>, IncorrectParameters)
        ELSE IF found.throws THEN Failed(fetch, found.error)
        ELSE IF removed.throws THEN Failed(made, removed.error)
        ELSE Returned(made, Rows(found.value))

----------------------------------------------------------------------------
(* Inputs *)

\* the engine's answers for an entity: a list of failures, or an exception
\* of the engine's own, which is never a GrpcBoom error
ValidationAnswers ==
    {Returns(errors) : errors \in SeqsUpTo(ValidationErrors, MaxErrors)}
      \cup {Throws(Untyped("validator crashed"))}

\* the entities handed to isValid
ValidatedEntities == {Entity("entity", answer) : answer \in ValidationAnswers}

\* the entities handed to save, saveAll and update: a valid one, one with a
\* failing field, one whose only failure has no constraints, and one on
\* which the validation engine throws
ValidEntity == Entity("valid", Returns(<<>>))

Entities ==
    {ValidEntity,
     Entity("invalid", Returns(<<[property |-> "username",
                                  constraints |-> [defined |-> TRUE,
                                                   values |-> <<"Incorrect length">>]]>>)),
     Entity("nested", Returns(<<[property |-> "emailAddress",
                                 constraints |-> [defined |-> FALSE, values |-> <<>>]]>>)),
     Entity("crash", Throws(Untyped("validator crashed")))}

\* the entities the repository returns
Stored == {Entity("stored1", Returns(<<>>)), Entity("stored2", Returns(<<>>))}

\* the errors the repository throws: typed errors of each kind, and a
\* backend exception
RepositoryErrors ==
    {GrpcBoom(kind, "repository refused", NewMetadata) : kind \in TypedKinds}
      \cup {Untyped("connection lost")}

Failures == {Throws(error) : error \in RepositoryErrors}

\* answers of the repository's methods, by what they return: a list, one
\* entity, one entity or nothing, nothing
ManyAnswers == Failures \cup {Returns(rows) : rows \in SeqsUpTo(Stored, 1)}
OneAnswers == Failures \cup {Returns(<<row>>) : row \in Stored}
MaybeAnswers == OneAnswers \cup {Returns(<<>>)}
VoidAnswers == Failures \cup {Returns(<<>>)}

\* search terms: with and without a field and an operator; values that are
\* empty, parenthesized, opened or closed only, and already quoted
Fields == {<<>>, <<"f">>}
Operators == {UndefinedStr, <<>>, <<">">>}
Values == {<<>>, <<LP, RP>>, <<LP, "a">>, <<"a", RP>>, <<QUOTE, "a", QUOTE>>}

\* a named field without operator and each of the values, a named field
\* with each of the other operators and a value that is quoted or left raw,
\* and an empty field without operator or value
SearchTerms ==
    {term \in [field : Fields, operator : Operators, value : Values] :
        \/ term.field # <<>> /\ term.operator = UndefinedStr
        \/ term.field # <<>> /\ term.operator = <<">">> /\ term.value \in {<<LP, RP>>, <<LP, "a">>}
        \/ term.field # <<>> /\ term.operator = <<>> /\ term.value = <<LP, "a">>
        \/ term.field = <<>> /\ term.operator = UndefinedStr /\ term.value = <<>>}

TermLists == {Absent} \cup {Present(list) : list \in SeqsUpTo(SearchTerms, MaxTerms)}

Limits == -1..MaxLimit

\* the options handed to the query-builder operations
QueryOptions ==
    {NoFilter, [where |-> <<"f", SP, "=", SP, "1">>, andWhere |-> <<>>, limit |-> 1]}

----------------------------------------------------------------------------
(* The state machine *)

NoTerms == Absent

\* the outcome of a call that has not completed
NoOutcome == [ok |-> TRUE, value |-> NoValue, error |-> NoError]

Init ==
    /\ op = "none"
    /\ awaiting = "none"
    /\ argId = NoId
    /\ supplied = 0
    /\ argEntities = <<>>
    /\ argLimit = 0
    /\ argTerms = NoTerms
    /\ calls = <<>>
    /\ raised = NoError
    /\ outcome = NoOutcome

\* the call completes: the caller receives its outcome
Settle(done) ==
    /\ awaiting' = "none"
    /\ calls' = done.made
    /\ raised' = done.caught
    /\ outcome' = done.result

\* the call goes on after an await: when the last call it makes is a call
\* of the repository method fn, that call has been made and the call is
\* suspended on it; otherwise the call completes
Proceed(done, fn) ==
    IF Len(done.made) > 0 /\ done.made[Len(done.made)].fn = fn
    THEN /\ awaiting' = fn
         /\ calls' = done.made
         /\ raised' = NoError
         /\ outcome' = NoOutcome
    ELSE Settle(done)

ValidId ==
    /\ op = "none"
    /\ \E i \in Ids :
           LET done == Returned(<<>>, Bool(validId(i)))
           IN  /\ op' = "validId"
               /\ awaiting' = "none"
               /\ argId' = i
               /\ supplied' = 0
               /\ argEntities' = <<>>
               /\ argLimit' = 0
               /\ argTerms' = NoTerms
               /\ calls' = done.made
               /\ raised' = done.caught
               /\ outcome' = done.result

\* isValid up to its await: validate has been called
IsValid ==
    /\ op = "none"
    /\ \E entity \in ValidatedEntities :
           /\ op' = "isValid"
           /\ awaiting' = "validate"
           /\ argId' = NoId
           /\ supplied' = 1
           /\ argEntities' = <<entity>>
           /\ argLimit' = 0
           /\ argTerms' = NoTerms
           /\ calls' = isValid(entity).made
           /\ raised' = NoError
           /\ outcome' = NoOutcome

\* findAll up to its await: repository.getAll has been called
FindAll ==
    /\ op = "none"
    /\ \E answer \in ManyAnswers :
           LET done == findAll(answer)
           IN  /\ op' = "findAll"
               /\ argId' = NoId
               /\ supplied' = 0
               /\ argEntities' = <<>>
               /\ argLimit' = 0
               /\ argTerms' = NoTerms
               /\ Proceed(done, "repository.getAll")

\* findAll after repository.getAll has settled: it returns what the
\* repository answered, or throws
FindAllAnswered ==
    /\ op = "findAll"
    /\ awaiting = "repository.getAll"
    /\ Settle(findAll(calls[1].answer))
    /\ UNCHANGED <<op, argId, supplied, argEntities, argLimit, argTerms>>

\* findAllByFilter up to its await: repository.findManyByFilter has been called
FindAllByFilter ==
    /\ op = "none"
    /\ \E answer \in ManyAnswers :
           LET done == findAllByFilter(answer)
           IN  /\ op' = "findAllByFilter"
               /\ argId' = NoId
               /\ supplied' = 0
               /\ argEntities' = <<>>
               /\ argLimit' = 0
               /\ argTerms' = NoTerms
               /\ Proceed(done, "repository.findManyByFilter")

\* findAllByFilter after repository.findManyByFilter has settled: it returns what the
\* repository answered, or throws
FindAllByFilterAnswered ==
    /\ op = "findAllByFilter"
    /\ awaiting = "repository.findManyByFilter"
    /\ Settle(findAllByFilter(calls[1].answer))
    /\ UNCHANGED <<op, argId, supplied, argEntities, argLimit, argTerms>>

\* findOneById up to its await: the id is refused, or
\* repository.findOneById has been called
FindOneById ==
    /\ op = "none"
    /\ \E i \in Ids, answer \in OneAnswers :
           LET done == findOneById(i, answer)
           IN  /\ op' = "findOneById"
               /\ argId' = i
               /\ supplied' = 0
               /\ argEntities' = <<>>
               /\ argLimit' = 0
               /\ argTerms' = NoTerms
               /\ Proceed(done, "repository.findOneById")

\* findOneById after repository.findOneById has settled: it returns what the
\* repository answered, or throws
FindOneByIdAnswered ==
    /\ op = "findOneById"
    /\ awaiting = "repository.findOneById"
    /\ Settle(findOneById(argId, calls[1].answer))
    /\ UNCHANGED <<op, argId, supplied, argEntities, argLimit, argTerms>>

\* findOneByFilter up to its await: repository.findOneByFilter has been called
FindOneByFilter ==
    /\ op = "none"
    /\ \E answer \in OneAnswers :
           LET done == findOneByFilter(answer)
           IN  /\ op' = "findOneByFilter"
               /\ argId' = NoId
               /\ supplied' = 0
               /\ argEntities' = <<>>
               /\ argLimit' = 0
               /\ argTerms' = NoTerms
               /\ Proceed(done, "repository.findOneByFilter")

\* findOneByFilter after repository.findOneByFilter has settled: it returns what the
\* repository answered, or throws
FindOneByFilterAnswered ==
    /\ op = "findOneByFilter"
    /\ awaiting = "repository.findOneByFilter"
    /\ Settle(findOneByFilter(calls[1].answer))
    /\ UNCHANGED <<op, argId, supplied, argEntities, argLimit, argTerms>>

\* findOneWithQueryBuilder up to its await: repository.findOneWithQueryBuilder has been called
FindOneWithQueryBuilder ==
    /\ op = "none"
    /\ \E options \in QueryOptions, answer \in MaybeAnswers :
           LET done == findOneWithQueryBuilder(options, answer)
           IN  /\ op' = "findOneWithQueryBuilder"
               /\ argId' = NoId
               /\ supplied' = 0
               /\ argEntities' = <<>>
               /\ argLimit' = 0
               /\ argTerms' = NoTerms
               /\ Proceed(done, "repository.findOneWithQueryBuilder")

\* findOneWithQueryBuilder after repository.findOneWithQueryBuilder has settled: it returns the
\* entity, or throws
FindOneWithQueryBuilderAnswered ==
    /\ op = "findOneWithQueryBuilder"
    /\ awaiting = "repository.findOneWithQueryBuilder"
    /\ Settle(findOneWithQueryBuilder(calls[1].filter, calls[1].answer))
    /\ UNCHANGED <<op, argId, supplied, argEntities, argLimit, argTerms>>

\* findManyWithQueryBuilder up to its await: repository.findManyWithQueryBuilder has been called
FindManyWithQueryBuilder ==
    /\ op = "none"
    /\ \E options \in QueryOptions, answer \in ManyAnswers :
           LET done == findManyWithQueryBuilder(options, answer)
           IN  /\ op' = "findManyWithQueryBuilder"
               /\ argId' = NoId
               /\ supplied' = 0
               /\ argEntities' = <<>>
               /\ argLimit' = 0
               /\ argTerms' = NoTerms
               /\ Proceed(done, "repository.findManyWithQueryBuilder")

\* findManyWithQueryBuilder after repository.findManyWithQueryBuilder has settled: it returns what the
\* repository answered, or throws
FindManyWithQueryBuilderAnswered ==
    /\ op = "findManyWithQueryBuilder"
    /\ awaiting = "repository.findManyWithQueryBuilder"
    /\ Settle(findManyWithQueryBuilder(calls[1].filter, calls[1].answer))
    /\ UNCHANGED <<op, argId, supplied, argEntities, argLimit, argTerms>>

GetSearchFilter ==
    /\ op = "none"
    /\ \E lim \in Limits, terms \in TermLists :
           LET done == getSearchFilter(lim, terms)
           IN  /\ op' = "getSearchFilter"
               /\ awaiting' = "none"
               /\ argId' = NoId
               /\ supplied' = 0
               /\ argEntities' = <<>>
               /\ argLimit' = lim
               /\ argTerms' = terms
               /\ calls' = done.made
               /\ raised' = done.caught
               /\ outcome' = done.result

\* search up to its await: the arguments are refused, or
\* repository.findManyWithQueryBuilder has been called with the filter
Search ==
    /\ op = "none"
    /\ \E lim \in Limits, terms \in TermLists, answer \in ManyAnswers :
           LET done == search(lim, terms, answer)
           IN  /\ op' = "search"
               /\ argId' = NoId
               /\ supplied' = 0
               /\ argEntities' = <<>>
               /\ argLimit' = lim
               /\ argTerms' = terms
               /\ Proceed(done, "repository.findManyWithQueryBuilder")

\* search after repository.findManyWithQueryBuilder has settled: it returns what the
\* repository answered, or throws
SearchAnswered ==
    /\ op = "search"
    /\ awaiting = "repository.findManyWithQueryBuilder"
    /\ Settle(search(argLimit, argTerms, calls[1].answer))
    /\ UNCHANGED <<op, argId, supplied, argEntities, argLimit, argTerms>>

\* isValid after validate has settled: it throws, or returns true
IsValidValidated ==
    /\ op = "isValid"
    /\ awaiting = "validate"
    /\ Settle(isValid(calls[1].entities[1]))
    /\ UNCHANGED <<op, argId, supplied, argEntities, argLimit, argTerms>>

\* save up to its first await: isValid(entity) has called validate
Save ==
    /\ op = "none"
    /\ \E entity \in Entities :
           /\ op' = "save"
           /\ awaiting' = "validate"
           /\ argId' = NoId
           /\ supplied' = 1
           /\ argEntities' = <<entity>>
           /\ argLimit' = 0
           /\ argTerms' = NoTerms
           /\ calls' = isValid(entity).made
           /\ raised' = NoError
           /\ outcome' = NoOutcome

\* save after isValid has settled: it throws, or hands the entity, as it
\* is now, to repository.save
SaveValidated ==
    /\ op = "save"
    /\ awaiting = "validate"
    /\ \E answer \in OneAnswers :
           /\ Proceed(save(calls[1].entities[1], argEntities[1], answer), "repository.save")
           /\ UNCHANGED <<op, argId, supplied, argEntities, argLimit, argTerms>>

\* save after repository.save has settled: it returns what the repository
\* answered, or throws
SavePersisted ==
    /\ op = "save"
    /\ awaiting = "repository.save"
    /\ Settle(Delegate(calls, calls[Len(calls)].answer))
    /\ UNCHANGED <<op, argId, supplied, argEntities, argLimit, argTerms>>

\* saveAll up to its first await: isValid has called validate for the
\* first entity; with no entity, repository.saveAll has been called
SaveAll ==
    /\ op = "none"
    /\ \E ents \in SeqsUpTo(Entities, MaxEntities), answer \in ManyAnswers :
           /\ op' = "saveAll"
           /\ argId' = NoId
           /\ supplied' = Len(ents)
           /\ argEntities' = ents
           /\ argLimit' = 0
           /\ argTerms' = NoTerms
           /\ IF Len(ents) = 0
              THEN Proceed(saveAll(ents, ents, answer), "repository.saveAll")
              ELSE /\ awaiting' = "validate"
                   /\ calls' = isValid(ents[1]).made
                   /\ raised' = NoError
                   /\ outcome' = NoOutcome

\* the entities that saveAll has handed to isValid so far, as they were
Validated == [j \in 1..Len(calls) |-> calls[j].entities[1]]

\* saveAll after an isValid of its loop has settled, when the loop goes on:
\* isValid calls validate for the next entity, as it is now
SaveAllNext ==
    /\ op = "saveAll"
    /\ awaiting = "validate"
    /\ ValidateAll(Validated, 1, <<>>).error.kind = "none"
    /\ Len(calls) < Len(argEntities)
    /\ calls' = calls \o isValid(argEntities[Len(calls) + 1]).made
    /\ UNCHANGED <<op, awaiting, argId, supplied, argEntities, argLimit, argTerms, raised, outcome>>

\* saveAll after an isValid of its loop has settled, when the loop ends: it
\* throws, or hands the list, as it is now, to repository.saveAll
SaveAllValidated ==
    /\ op = "saveAll"
    /\ awaiting = "validate"
    /\ ValidateAll(Validated, 1, <<>>).error.kind # "none" \/ Len(calls) >= Len(argEntities)
    /\ \E answer \in ManyAnswers :
           /\ Proceed(saveAll(Validated, argEntities, answer), "repository.saveAll")
           /\ UNCHANGED <<op, argId, supplied, argEntities, argLimit, argTerms>>

\* saveAll after repository.saveAll has settled
SaveAllPersisted ==
    /\ op = "saveAll"
    /\ awaiting = "repository.saveAll"
    /\ Settle(Delegate(calls, calls[Len(calls)].answer))
    /\ UNCHANGED <<op, argId, supplied, argEntities, argLimit, argTerms>>

\* update up to its first await: isValid(entity) has called validate
Update ==
    /\ op = "none"
    /\ \E entity \in Entities, i \in Ids :
           /\ op' = "update"
           /\ awaiting' = "validate"
           /\ argId' = i
           /\ supplied' = 1
           /\ argEntities' = <<entity>>
           /\ argLimit' = 0
           /\ argTerms' = NoTerms
           /\ calls' = isValid(entity).made
           /\ raised' = NoError
           /\ outcome' = NoOutcome

\* update after isValid has settled: it throws, or hands the entity, as it
\* is now, to repository.updateOneById
UpdateValidated ==
    /\ op = "update"
    /\ awaiting = "validate"
    /\ \E answer \in OneAnswers :
           /\ Proceed(update(calls[1].entities[1], argEntities[1], argId, answer),
                      "repository.updateOneById")
           /\ UNCHANGED <<op, argId, supplied, argEntities, argLimit, argTerms>>

\* update after repository.updateOneById has settled
UpdatePersisted ==
    /\ op = "update"
    /\ awaiting = "repository.updateOneById"
    /\ Settle(Delegate(calls, calls[Len(calls)].answer))
    /\ UNCHANGED <<op, argId, supplied, argEntities, argLimit, argTerms>>

\* delete up to its first await: the id is refused, or
\* repository.findOneById has been called
Delete ==
    /\ op = "none"
    /\ \E i \in Ids, found \in OneAnswers :
           LET done == delete(i, found, Returns(<<>>))
           IN  /\ op' = "delete"
               /\ argId' = i
               /\ supplied' = 0
               /\ argEntities' = <<>>
               /\ argLimit' = 0
               /\ argTerms' = NoTerms
               /\ IF Len(done.made) = 0
                  THEN /\ awaiting' = "none"
                       /\ calls' = done.made
                       /\ raised' = done.caught
                       /\ outcome' = done.result
                  ELSE /\ awaiting' = "repository.findOneById"
                       /\ calls' = SubSeq(done.made, 1, 1)
                       /\ raised' = NoError
                       /\ outcome' = NoOutcome

\* delete after repository.findOneById has settled: it throws, or hands
\* the entity found to repository.delete
DeleteFetched ==
    /\ op = "delete"
    /\ awaiting = "repository.findOneById"
    /\ \E removed \in VoidAnswers :
           /\ Proceed(delete(argId, calls[1].answer, removed), "repository.delete")
           /\ UNCHANGED <<op, argId, supplied, argEntities, argLimit, argTerms>>

\* delete after repository.delete has settled: it returns the entity found,
\* or throws
DeleteRemoved ==
    /\ op = "delete"
    /\ awaiting = "repository.delete"
    /\ Settle(delete(argId, calls[1].answer, calls[Len(calls)].answer))
    /\ UNCHANGED <<op, argId, supplied, argEntities, argLimit, argTerms>>

\* while isValid, save, saveAll or update is suspended, on validate or on
\* the repository, another callback changes one of the entities the call
\* was handed
Mutate ==
    /\ op \in {"isValid", "save", "saveAll", "update"}
    /\ awaiting # "none"
    /\ \E j \in 1..Len(argEntities), entity \in Entities :
           /\ entity # argEntities[j]
           /\ argEntities' = [argEntities EXCEPT ![j] = entity]
    /\ UNCHANGED <<op, awaiting, argId, supplied, argLimit, argTerms, calls, raised, outcome>>

\* what another callback can make of the array: entities.length = 0, pop,
\* shift, push(entity), unshift(entity)
Resized(list) ==
    (IF Len(list) = 0 THEN {}
     ELSE {<<>>, SubSeq(list, 1, Len(list) - 1), SubSeq(list, 2, Len(list))})
      \cup {Append(list, entity) : entity \in Entities}
      \cup {<<entity>> \o list : entity \in Entities}

\* while saveAll is suspended, on an isValid of its loop or on
\* repository.saveAll, another callback changes the length of the array the
\* call was handed: the loop iterates that array, and repository.saveAll is
\* handed it
Resize ==
    /\ op = "saveAll"
    /\ awaiting # "none"
    /\ \E list \in Resized(argEntities) :
           /\ Len(list) # Len(argEntities)
           /\ Len(list) <= MaxEntities
           /\ argEntities' = list
    /\ UNCHANGED <<op, awaiting, argId, supplied, argLimit, argTerms, calls, raised, outcome>>

\* the caller has received the outcome; the service keeps nothing of the call
Return ==
    /\ op # "none"
    /\ awaiting = "none"
    /\ op' = "none"
    /\ awaiting' = "none"
    /\ argId' = NoId
    /\ supplied' = 0
    /\ argEntities' = <<>>
    /\ argLimit' = 0
    /\ argTerms' = NoTerms
    /\ calls' = <<>>
    /\ raised' = NoError
    /\ outcome' = NoOutcome

Next ==
    \/ Return
    \/ ValidId
    \/ IsValid
    \/ IsValidValidated
    \/ FindAll
    \/ FindAllAnswered
    \/ FindAllByFilter
    \/ FindAllByFilterAnswered
    \/ FindOneById
    \/ FindOneByIdAnswered
    \/ FindOneByFilter
    \/ FindOneByFilterAnswered
    \/ FindOneWithQueryBuilder
    \/ FindOneWithQueryBuilderAnswered
    \/ FindManyWithQueryBuilder
    \/ FindManyWithQueryBuilderAnswered
    \/ GetSearchFilter
    \/ Search
    \/ SearchAnswered
    \/ Save
    \/ SaveValidated
    \/ SavePersisted
    \/ SaveAll
    \/ SaveAllNext
    \/ SaveAllValidated
    \/ SaveAllPersisted
    \/ Update
    \/ UpdateValidated
    \/ UpdatePersisted
    \/ Delete
    \/ DeleteFetched
    \/ DeleteRemoved
    \/ Mutate
    \/ Resize

Spec == Init /\ [][Next]_vars

----------------------------------------------------------------------------
(* Vocabulary of the properties *)

\* the public operations that wrap their work in the shared catch block
ServiceOperations ==
    {"findAll", "findAllByFilter", "findOneById", "findOneByFilter",
     "findOneWithQueryBuilder", "findManyWithQueryBuilder", "search",
     "save", "saveAll", "update", "delete"}

IsRepositoryCall(call) == call.fn \notin {"validate"}

\* the positions in calls of the calls to the repository
RepositoryCalls == {k \in 1..Len(calls) : IsRepositoryCall(calls[k])}

\* the engine answers that isValid accepts
Accepted(entity) == ~entity.validation.throws /\ Len(entity.validation.value) = 0

\* the call has completed: the caller has received its outcome
Completed == op # "none" /\ awaiting = "none"

\* the caller received a typed error of this kind
FailedWith(kind) == ~outcome.ok /\ outcome.error.isBoom /\ outcome.error.kind = kind

----------------------------------------------------------------------------
(* C1 *)

\* C1: in every public operation of the service, a failure reaches the
\* caller as a typed error: a typed error that reached the catch block, and
\* a typed error thrown by the repository, arrive unchanged (same kind,
\* message and metadata); an untyped one arrives as Internal.  A call that
\* returns raised nothing.
C1_ErrorsNormalized ==
    (op \in ServiceOperations /\ Completed) =>
        /\ outcome.ok => raised = NoError
        /\ ~outcome.ok =>
              /\ outcome.error.isBoom
              /\ outcome.error.kind \in TypedKinds
              /\ raised.isBoom => outcome.error = raised
              /\ ~raised.isBoom => outcome.error.kind = INTERNAL
              /\ \A k \in RepositoryCalls :
                    calls[k].answer.throws =>
                        IF calls[k].answer.error.isBoom
                        THEN outcome.error = calls[k].answer.error
                        ELSE outcome.error.kind = INTERNAL

\* C1 witness: save of a valid entity, the repository throws an untyped
\* error, the caller receives Internal
C1_Witness ==
    /\ op = "save"
    /\ Completed
    /\ Len(calls) = 2
    /\ calls[2].answer = Throws(Untyped("connection lost"))
    /\ raised = Untyped("connection lost")
    /\ FailedWith(INTERNAL)

----------------------------------------------------------------------------
(* C2 *)

PreconditionsViolated == argLimit < 0 \/ ~argTerms.present \/ Len(argTerms.list) = 0

\* C2: getSearchFilter fails with InvalidArgument when limit < 0 or the
\* terms are absent or empty, and returns a filter when limit >= 0 and the
\* terms are not empty; search with violated preconditions fails with
\* InvalidArgument and calls nothing.
C2_Preconditions ==
    /\ op = "getSearchFilter" =>
          IF PreconditionsViolated
          THEN FailedWith(INVALID_ARGUMENT)
          ELSE outcome.ok /\ outcome.value.filter.limit = argLimit
    /\ (op = "search" /\ PreconditionsViolated) =>
          FailedWith(INVALID_ARGUMENT) /\ calls = <<>>

\* C2 witness: search with limit >= 0 and an empty list of terms is rejected
C2_Witness ==
    /\ op = "search"
    /\ argLimit >= 0
    /\ argTerms = Present(<<>>)
    /\ FailedWith(INVALID_ARGUMENT)
    /\ calls = <<>>

----------------------------------------------------------------------------
(* C3 *)

\* the filter that the claim C3 expects for the terms t1..tn
PositionalFilter(lim, list) ==
    [where |-> Clause(list[1]),
     andWhere |-> [k \in 1..(Len(list) - 1) |-> Clause(list[k + 1])],
     limit |-> lim]

\* C3: for terms t1..tn (n >= 1) and limit >= 0, getSearchFilter returns
\* where = the clause of t1, andWhere = the clauses of t2..tn in input
\* order, and the limit it was given, also when fields, operators or values
\* are empty; search hands that filter to the repository.
C3_PositionalSplit ==
    /\ (op = "getSearchFilter" /\ outcome.ok) =>
          /\ outcome.value.filter = PositionalFilter(argLimit, argTerms.list)
          /\ Len(outcome.value.filter.andWhere) = Len(argTerms.list) - 1
    /\ (op = "search" /\ calls # <<>>) =>
          calls[1].filter = PositionalFilter(argLimit, argTerms.list)

\* C3 witness: three terms with three different clauses, the first with an
\* empty field and an empty value; andWhere holds the clauses of the second
\* and of the third, in that order
C3_Witness ==
    /\ op = "getSearchFilter"
    /\ outcome.ok
    /\ Len(argTerms.list) = 3
    /\ argTerms.list[1].field = <<>>
    /\ argTerms.list[1].value = <<>>
    /\ Clause(argTerms.list[2]) # Clause(argTerms.list[3])
    /\ Clause(argTerms.list[1]) # Clause(argTerms.list[2])
    /\ Clause(argTerms.list[1]) # Clause(argTerms.list[3])
    /\ outcome.value.filter.where = Clause(argTerms.list[1])
    /\ outcome.value.filter.andWhere =
           <<Clause(argTerms.list[2]), Clause(argTerms.list[3])>>

----------------------------------------------------------------------------
(* C4 and C5 *)

\* the clauses of a compiled filter, in the order of the terms
ClausesOf(filter) == <<filter.where>> \o filter.andWhere

\* the value part that C5 expects for a raw value
ExpectedValuePart(value) ==
    IF Len(value) > 0 /\ value[1] = LP /\ value[Len(value)] = RP
    THEN value
    ELSE <<QUOTE>> \o value \o <<QUOTE>>

\* the operator that C4 expects for a term
ExpectedOperator(term) ==
    IF term.operator # UndefinedStr /\ term.operator # <<>>
    THEN term.operator
    ELSE <<"=">>

\* C4: every clause compiled by getSearchFilter is "<field> <op> <value>"
\* with single spaces, <op> being the term's operator when one is supplied
\* and '=' otherwise.
C4_ClauseShape ==
    (op = "getSearchFilter" /\ outcome.ok) =>
        \A k \in 1..Len(argTerms.list) :
            ClausesOf(outcome.value.filter)[k] =
                argTerms.list[k].field \o <<SP>>
                  \o ExpectedOperator(argTerms.list[k]) \o <<SP>>
                  \o ExpectedValuePart(argTerms.list[k].value)

\* C5: in every clause compiled by getSearchFilter the value part is the
\* raw value when it starts with '(' and ends with ')', and the raw value
\* between two single quotes, unescaped, in every other case.
C5_ValueQuoting ==
    (op = "getSearchFilter" /\ outcome.ok) =>
        \A k \in 1..Len(argTerms.list) :
            LET term == argTerms.list[k]
                head == term.field \o <<SP>> \o OperatorPart(term) \o <<SP>>
            IN  ClausesOf(outcome.value.filter)[k] = head \o ExpectedValuePart(term.value)

\* C5 witness: a parenthesized value left raw, next to a value that only
\* starts with a parenthesis and is quoted
C5_Witness ==
    /\ op = "getSearchFilter"
    /\ outcome.ok
    /\ Len(argTerms.list) = 2
    /\ argTerms.list[1] = [field |-> <<"f">>, operator |-> <<">">>, value |-> <<LP, RP>>]
    /\ argTerms.list[2] = [field |-> <<"f">>, operator |-> <<">">>, value |-> <<LP, "a">>]
    /\ outcome.value.filter.where = <<"f", SP, ">", SP, LP, RP>>
    /\ outcome.value.filter.andWhere = << <<"f", SP, ">", SP, QUOTE, LP, "a", QUOTE>> >>

----------------------------------------------------------------------------
(* C6 *)

WriteOperations == {"save", "saveAll", "update"}

\* the repository method each write operation persists with
WriteOf(name) ==
    IF name = "save" THEN "repository.save"
    ELSE IF name = "saveAll" THEN "repository.saveAll"
    ELSE "repository.updateOneById"

\* the engine reported failures for the entity, or broke with an exception
FailsValidation(entity) ==
    entity.validation.throws \/ Len(entity.validation.value) > 0

\* the entity that the j-th call, a call of validate, was handed
ValidatedAt(j) == calls[j].entities[1]

\* the validations that isValid accepted before the k-th call
AcceptedBefore(k) ==
    {j \in 1..(k - 1) : calls[j].fn = "validate" /\ Accepted(ValidatedAt(j))}

\* C6: save, saveAll and update call the repository only to persist, and
\* only once isValid has succeeded for every entity the caller supplied, so
\* after at least as many accepted validations as entities were supplied
\* (and, for update, with an id that is a number greater than 0); the
\* validations come one after the other, each after the one before was
\* accepted, and before the call to the repository; when an entity fails
\* validation or the id of update is invalid, the call fails with
\* InvalidArgument and the repository is not called at all.
C6_ValidationGate ==
    op \in WriteOperations =>
        /\ \A k \in RepositoryCalls :
              /\ calls[k].fn = WriteOf(op)
              /\ k = Len(calls)
              /\ Cardinality(AcceptedBefore(k)) >= supplied
              /\ op = "update" => (argId.t = "number" /\ argId.twice > 0)
        /\ \A j \in 1..Len(calls) :
              calls[j].fn = "validate" =>
                  /\ Len(calls[j].entities) = 1
                  /\ calls[j].answer = validate(ValidatedAt(j))
                  /\ \A i \in 1..(j - 1) :
                        calls[i].fn = "validate" /\ Accepted(ValidatedAt(i))
        /\ (Completed
            /\ ((\E j \in 1..Len(calls) :
                    calls[j].fn = "validate" /\ FailsValidation(ValidatedAt(j)))
                \/ (op = "update" /\ ~(argId.t = "number" /\ argId.twice > 0))))
              => FailedWith(INVALID_ARGUMENT) /\ RepositoryCalls = {}

----------------------------------------------------------------------------
(* C7 *)

\* C7: delete validates the id, then calls repository.findOneById(id), then
\* repository.delete with the entity fetched, and returns that entity.  With
\* an invalid id it fails with InvalidArgument and calls nothing; when
\* findOneById fails, repository.delete is not called.
C7_DeleteOrder ==
    op = "delete" =>
        /\ ~(argId.t = "number" /\ argId.twice > 0) =>
              FailedWith(INVALID_ARGUMENT) /\ calls = <<>>
        /\ Len(calls) <= 2
        /\ Len(calls) >= 1 =>
              /\ argId.t = "number" /\ argId.twice > 0
              /\ calls[1].fn = "repository.findOneById"
              /\ calls[1].id = argId
              /\ calls[1].answer.throws => Len(calls) = 1
              /\ (Completed /\ calls[1].answer.throws) => ~outcome.ok
        /\ Len(calls) = 2 =>
              /\ calls[2].fn = "repository.delete"
              /\ calls[2].entities = calls[1].answer.value
        /\ (Completed /\ outcome.ok) =>
              /\ Len(calls) = 2
              /\ ~calls[2].answer.throws
              /\ outcome.value.rows = calls[1].answer.value

\* C7 witness: a delete that returns the entity fetched before the deletion
C7_Witness ==
    /\ op = "delete"
    /\ Completed
    /\ outcome.ok
    /\ Len(calls) = 2
    /\ calls[1].answer = Returns(<<Entity("stored2", Returns(<<>>))>>)
    /\ calls[2].entities = <<Entity("stored2", Returns(<<>>))>>
    /\ outcome.value.rows = <<Entity("stored2", Returns(<<>>))>>

----------------------------------------------------------------------------
(* C8 *)

OtherReads ==
    {"findAll", "findAllByFilter", "findOneById", "findOneByFilter",
     "findManyWithQueryBuilder", "search"}

\* C8: findOneWithQueryBuilder fails with NotFound when the repository
\* returns nothing and returns the repository's entity when there is one;
\* any NotFound that another read operation fails with was thrown by the
\* repository.
C8_NotFound ==
    /\ (op = "findOneWithQueryBuilder" /\ Completed /\ ~calls[1].answer.throws) =>
          IF calls[1].answer.value = <<>>
          THEN FailedWith(NOT_FOUND) /\ outcome.error = ObjectNotFound
          ELSE outcome.ok /\ outcome.value.rows = calls[1].answer.value
    /\ (op \in OtherReads /\ FailedWith(NOT_FOUND)) =>
          /\ calls # <<>>
          /\ calls[Len(calls)].answer.throws
          /\ calls[Len(calls)].answer.error = outcome.error

\* C8 witness: the repository finds nothing and the caller receives NotFound
C8_Witness ==
    /\ op = "findOneWithQueryBuilder"
    /\ Completed
    /\ calls[1].answer = Returns(<<>>)
    /\ FailedWith(NOT_FOUND)
    /\ raised = ObjectNotFound

----------------------------------------------------------------------------
(* C9 *)

\* the failures the engine reported for the entity handed to isValid
Reported == calls[1].answer.value

\* the reported failures name pairwise different fields
DistinctFields ==
    \A j, k \in 1..Len(Reported) :
        (Reported[j].property = Reported[k].property) => j = k

\* C9: when the engine reports failures for N >= 1 different, named fields,
\* isValid fails with InvalidArgument and Metadata of exactly N keys, each
\* with exactly one message, the first constraint message of the field;
\* with no failure isValid returns true; isValid never returns false.
C9_OneKeyPerFailure ==
    (op = "isValid" /\ Completed) =>
        /\ outcome.ok => outcome.value.bool = TRUE
        /\ (~calls[1].answer.throws /\ Len(Reported) = 0) => outcome.ok
        /\ (/\ ~calls[1].answer.throws
            /\ Len(Reported) >= 1
            /\ DistinctFields
            /\ \A k \in 1..Len(Reported) :
                  /\ Reported[k].property # ""
                  /\ Len(Reported[k].constraints.values) > 0)
              => /\ FailedWith(INVALID_ARGUMENT)
                 /\ Len(MetadataKeys(outcome.error.metadata)) = Len(Reported)
                 /\ \A k \in 1..Len(Reported) :
                       MetadataGet(outcome.error.metadata, Reported[k].property) =
                           <<Reported[k].constraints.values[1]>>

----------------------------------------------------------------------------
(* C10 *)

\* the validation loop of saveAll has ended without a throw: every entity
\* handed to isValid was accepted and saveAll awaits no validation
LoopEnded ==
    /\ awaiting # "validate"
    /\ \A j \in 1..Len(calls) : calls[j].fn = "validate" => Accepted(calls[j].entities[1])

\* saveAll called the repository once, as its last call: repository.saveAll
OneBatchPersist ==
    /\ RepositoryCalls = {Len(calls)}
    /\ calls[Len(calls)].fn = "repository.saveAll"

\* C10, as claimed: every call of the service calls the repository at most
\* once, and saveAll calls repository.saveAll exactly once, after its
\* validation loop.
C10_AtMostOneRepositoryCall ==
    /\ Cardinality(RepositoryCalls) <= 1
    /\ (op = "saveAll" /\ LoopEnded) => OneBatchPersist

\* C10, amended: every call of the service calls the repository at most
\* once, except delete, which calls it at most twice (findOneById, then
\* delete); no call follows a repository call that failed and no repository
\* method is called twice; saveAll calls repository.saveAll exactly once,
\* after its validation loop.
C10_BoundedRepositoryCalls ==
    /\ op # "delete" => Cardinality(RepositoryCalls) <= 1
    /\ op = "delete" => Cardinality(RepositoryCalls) <= 2
    /\ \A k \in RepositoryCalls : calls[k].answer.throws => k = Len(calls)
    /\ \A j, k \in RepositoryCalls : calls[j].fn = calls[k].fn => j = k
    /\ (op = "saveAll" /\ LoopEnded) => OneBatchPersist

\* C10 witness: a delete that calls the repository twice
C10_Witness ==
    /\ op = "delete"
    /\ Completed
    /\ outcome.ok
    /\ Cardinality(RepositoryCalls) = 2
    /\ calls[1].fn = "repository.findOneById"
    /\ calls[2].fn = "repository.delete"

----------------------------------------------------------------------------
(* C11 *)

\* the operations that guard their id with validId
IdGuarded == {"findOneById", "update", "delete"}

\* the id is a number greater than 0, integer or not
PositiveNumber(i) == i.t = "number" /\ i.twice \in Nat \ {0}

\* the id is an integer greater than 0: twice an integer is even
PositiveInteger(i) == PositiveNumber(i) /\ i.twice % 2 = 0

\* C11, as claimed: validId(id) is true if and only if id is an integer
\* greater than 0, and findOneById, update and delete reject every id that
\* is not a positive integer with InvalidArgument before any repository
\* call.
C11_ValidIdPositiveInteger ==
    /\ op = "validId" => (outcome.value.bool <=> PositiveInteger(argId))
    /\ (op \in IdGuarded /\ Completed /\ ~PositiveInteger(argId)) =>
          /\ FailedWith(INVALID_ARGUMENT)
          /\ RepositoryCalls = {}

\* C11, amended: validId(id) is true if and only if id is a number greater
\* than 0 (undefined, NaN, 0 and the negative numbers are refused, a
\* positive non-integer is accepted); findOneById, update and delete reject
\* every id that is not a number greater than 0 with InvalidArgument before
\* any repository call, and findOneById and delete call the repository
\* with every id that is one, as does update once the entity is accepted.
C11_ValidIdPositiveNumber ==
    /\ op = "validId" => (outcome.value.bool <=> PositiveNumber(argId))
    /\ (op \in IdGuarded /\ Completed /\ ~PositiveNumber(argId)) =>
          /\ FailedWith(INVALID_ARGUMENT)
          /\ RepositoryCalls = {}
    /\ (op \in {"findOneById", "delete"} /\ PositiveNumber(argId)) =>
          /\ RepositoryCalls # {}
          /\ calls[1].fn = "repository.findOneById"
          /\ calls[1].id = argId
    /\ (/\ op = "update"
        /\ awaiting # "validate"
        /\ PositiveNumber(argId)
        /\ Accepted(calls[1].entities[1])) =>
          /\ RepositoryCalls = {2}
          /\ calls[2].fn = "repository.updateOneById"
          /\ calls[2].id = argId

\* C11 witness: an update of an accepted entity under the id NaN, refused
\* before the repository is called
C11_Witness ==
    /\ op = "update"
    /\ Completed
    /\ argId = NaNId
    /\ Len(calls) = 1
    /\ Accepted(calls[1].entities[1])
    /\ FailedWith(INVALID_ARGUMENT)
    /\ outcome.error = IncorrectParameters
    /\ RepositoryCalls = {}

====
